---- MODULE Spec2Model ----
(***************************************************************************)
(* IntelligentApiClient (frontend/as_lp/lib/intelligent-api-client.ts):    *)
(* the admission-controlled request scheduler.                             *)
(*                                                                         *)
(* One action is one synchronous stretch of the event loop.  Time is in    *)
(* milliseconds (Date.now()).  anomaly scores are kept in hundredths       *)
(* (0.8 is 80) so that the thresholds stay integers.                       *)
(***************************************************************************)
EXTENDS Integers, Sequences, FiniteSets, TLC

\* ---------------------------------------------------------------- bounds
MaxReq == 5          \* requests submitted in one behaviour
QueueReqs == 4       \* ... when their priorities differ
BackoffReqs == 4     \* ... when 429 responses and timers are in play
RateReqs == 3        \* ... when the endpoints differ
MaxTicks == 1        \* advances of the clock in one behaviour
MaxDestroy == 2         \* calls of destroy() in one behaviour
MaxCalls == 2           \* calls made through the hook in one behaviour
MaxHealthPending == 1 \* health fetches in flight at once

\* ------------------------------------------------------- program constants
DefaultMaxRequestsPerMinute == 60
DefaultMaxConcurrentRequests == 5
DefaultBackoffMultiplier == 2
DefaultMaxBackoffTime == 30000
DefaultHealthCheckInterval == 10000
WindowMs == 60000
AdjustBaseRequestsPerMinute == 60
AdjustBaseConcurrentRequests == 5
DefaultRetryAfterMs == 1000
DefaultPriority == 1

\* Number arithmetic: NaN is the one non-number the code can produce
\* (parseInt of a header that does not start with a digit).
NaN == -1

JsLt(a, b) == a /= NaN /\ b /= NaN /\ a < b

JsMul(a, b) == IF a = NaN \/ b = NaN THEN NaN ELSE a * b

JsAdd(a, b) == IF a = NaN \/ b = NaN THEN NaN ELSE a + b

\* Math.min: NaN if either argument is NaN
JsMin(a, b) == IF a = NaN \/ b = NaN THEN NaN ELSE IF a < b THEN a ELSE b

\* ------------------------------------------------------------------ inputs
\* An endpoint is the sequence of its characters.
EpA == <<"/", "a">>
EpAq1 == <<"/", "a", "?", "1">>
EpAq2 == <<"/", "a", "?", "2">>

EpB == <<"/", "b">>

Endpoints == {EpA, EpAq1, EpB}

Priorities == {DefaultPriority, 5}

\* Retry-After header of a 429: absent (headers.get gives null) or a string
NoHeader == "<null>"

RetryAfterHeaders == {NoHeader, "2", "soon"}

\* parseInt on the header strings the model draws: the leading decimal digits
ParseInt(s) ==
  CASE s = "0" -> 0
    [] s = "1" -> 1
    [] s = "2" -> 2
    [] s = "20" -> 20
    [] OTHER -> NaN

\* a string is truthy unless it is null or empty
Truthy(s) == s /= NoHeader /\ s /= ""

\* construction-time overrides of the two limits
ConfigOverrides ==
  { [maxRequestsPerMinute |-> m, maxConcurrentRequests |-> c] :
      m \in {1, 2, DefaultMaxRequestsPerMinute},
      c \in {0, 1, DefaultMaxConcurrentRequests} }

\* bodies of a successful health response (absent fields are absent)
HealthBodies ==
  { <<>>,
    [cpu_usage |-> 95],
    [memory_usage |-> 75, active_connections |-> 7] }

\* bodies on and around the thresholds of determineHealthStatus, each field
\* present or not (anomaly_score in hundredths)
HealthFields == {"cpu_usage", "memory_usage", "anomaly_score"}

LoadLevels == {70, 71, 90, 91, 95}

AnomalyLevels == {50, 51, 80, 81}

LevelsOf(f) == IF f = "anomaly_score" THEN AnomalyLevels ELSE LoadLevels

ThresholdBodies ==
  { b \in UNION { [F -> LoadLevels \cup AnomalyLevels] : F \in SUBSET HealthFields } :
      \A f \in DOMAIN b : b[f] \in LevelsOf(f) }

\* ------------------------------------------------------------------- state
VARIABLES
  now,               \* Date.now()
  ticks,             \* how often the clock has advanced
  config,            \* this.config
  requestQueue,      \* this.requestQueue: request ids, in array order
  activeRequests,    \* this.activeRequests
  requestCounts,     \* this.requestCounts: key -> count (a Map)
  lastRequestTimes,  \* this.lastRequestTimes: key -> time (a Map)
  backoffUntil,      \* this.backoffUntil
  systemHealth,      \* this.systemHealth
  healthCheckTimer,  \* this.healthCheckTimer is set
  healthPending,     \* health fetches issued and not answered
  req,               \* every makeRequest call: its arguments and where it stands
  nextId,            \* id of the next makeRequest call
  microQ,            \* calls suspended at `await this.waitForBackoff()` with no timer
  drainTimers,       \* pending setTimeout(() => this.processQueue(), 0)
  issued,            \* ids in the order their fetch was issued
  enqLog,            \* ids in the order they were pushed on requestQueue
  constructed,       \* the limits the constructor merged into this.config
  last429,           \* the latest 429 response: who got it, when, its header
  lastPoll,          \* how the latest answered health fetch ended
  destroyCalls,      \* how often destroy() was called
  pendingAtDestroy,  \* the calls that were under way at the first destroy()
  mounted,           \* useIntelligentApi: "no", "yes" or "unmounted"
  hookOpts,          \* useIntelligentApi: retryOnRateLimit, maxRetries
  retryCountRef,     \* retryCountRef.current
  retryTimeoutRef,   \* retryTimeoutRef.current: the call of the latest timer, 0 for null
  hookView,          \* the hook's state: loading, error, rateLimited, retryAfter
  calls,             \* every call made through the hook and where it stands
  retryTimers,       \* pending setTimeout(() => executeRequest(requestFn), retryDelay)
  notifications,     \* useRateLimitNotifications: the list
  notifTimers,       \* pending auto-remove timers, in the order they were set
  noteLog            \* history: what each auto-remove timer removed, and when

vars == << now, ticks, config, requestQueue, activeRequests, requestCounts,
           lastRequestTimes, backoffUntil, systemHealth, healthCheckTimer,
           healthPending, req, nextId, microQ, drainTimers, issued, enqLog,
           constructed, last429, lastPoll, destroyCalls, pendingAtDestroy,
           mounted, hookOpts, retryCountRef, retryTimeoutRef, hookView, calls,
           retryTimers, notifications, notifTimers, noteLog >>

\* what the program does not keep and the properties speak of
history == << constructed, last429, lastPoll >>

teardown == << destroyCalls, pendingAtDestroy >>

\* the fields of the client, and where its calls and timers stand
clientVars ==
  << now, config, requestQueue, activeRequests, requestCounts, lastRequestTimes,
     backoffUntil, systemHealth, healthCheckTimer, healthPending, req, nextId,
     microQ, drainTimers, issued, enqLog >>

\* the same without the health timer
requestVars ==
  << now, config, requestQueue, activeRequests, requestCounts, lastRequestTimes,
     backoffUntil, systemHealth, healthPending, req, nextId, microQ, drainTimers,
     issued, enqLog >>

\* useIntelligentApi
hookVars == << mounted, hookOpts, retryCountRef, retryTimeoutRef, hookView, calls,
              retryTimers >>

\* useRateLimitNotifications
noteVars == << notifications, notifTimers, noteLog >>

Ids == 1..MaxReq

No429 == [id |-> 0, at |-> 0, header |-> NoHeader]

NoRequest ==
  [endpoint |-> <<>>, priority |-> 0, st |-> "none", via |-> "none",
   wakeAt |-> 0, subAt |-> 0, dispAt |-> 0, after429 |-> No429,
   resp |-> "none"]

NoHealth == [status |-> "null"]

CallIds == 1..MaxCalls

\* a call through the hook: the endpoint, the makeRequest call it awaits, how
\* often it was re-invoked, the delays of its retry timers
NoCall == [endpoint |-> <<>>, st |-> "none", cur |-> 0, retries |-> 0, delays |-> <<>>]

NoOptions == [retryOnRateLimit |-> FALSE, maxRetries |-> 0]

\* useState's initial value, without what the status poll fills in
InitialView == [loading |-> FALSE, error |-> "null", rateLimited |-> FALSE, retryAfter |-> 0]

\* ----------------------------------------------------------------- helpers
\* constructor: defaults overridden by the given config
Construct(override) ==
  [maxRequestsPerMinute |-> override.maxRequestsPerMinute,
   maxConcurrentRequests |-> override.maxConcurrentRequests,
   backoffMultiplier |-> DefaultBackoffMultiplier,
   maxBackoffTime |-> DefaultMaxBackoffTime,
   healthCheckInterval |-> DefaultHealthCheckInterval]

\* healthData.f || 0
Field(body, f) == IF f \in DOMAIN body THEN body[f] ELSE 0

\* a classifier whose thresholds are not strict
determineHealthStatus_NonStrict(body) ==
  LET cpuUsage == Field(body, "cpu_usage")
      memoryUsage == Field(body, "memory_usage")
      anomalyScore == Field(body, "anomaly_score")
  IN  IF cpuUsage >= 90 \/ memoryUsage >= 90 \/ anomalyScore >= 80 THEN "critical"
      ELSE IF cpuUsage >= 70 \/ memoryUsage >= 70 \/ anomalyScore >= 50 THEN "degraded"
      ELSE "healthy"

\* anomaly_score is kept in hundredths: 0.8 is 80, 0.5 is 50
determineHealthStatus(body) ==
  LET cpuUsage == Field(body, "cpu_usage")
      memoryUsage == Field(body, "memory_usage")
      anomalyScore == Field(body, "anomaly_score")
  IN  IF cpuUsage > 90 \/ memoryUsage > 90 \/ anomalyScore > 80 THEN "critical"
      ELSE IF cpuUsage > 70 \/ memoryUsage > 70 \/ anomalyScore > 50 THEN "degraded"
      ELSE "healthy"

Snapshot(body) ==
  [cpuUsage |-> Field(body, "cpu_usage"),
   memoryUsage |-> Field(body, "memory_usage"),
   activeConnections |-> Field(body, "active_connections"),
   anomalyScore |-> Field(body, "anomaly_score"),
   status |-> determineHealthStatus(body)]

DegradedPlaceholder ==
  [cpuUsage |-> 80, memoryUsage |-> 80, activeConnections |-> 100,
   anomalyScore |-> 70, status |-> "degraded"]

\* Math.round in place of Math.floor
Scaled_Rounded(base, status) ==
  CASE status = "healthy" -> base
    [] status = "degraded" -> (base * 5 + 5) \div 10
    [] status = "critical" -> (base * 2 + 5) \div 10
    [] OTHER -> base

\* Math.floor(base * multiplier), multiplier 1, 0.5 or 0.2
Scaled(base, status) ==
  CASE status = "healthy" -> base
    [] status = "degraded" -> (base * 5) \div 10
    [] status = "critical" -> (base * 2) \div 10
    [] OTHER -> base

adjustRateLimits(cfg, health) ==
  IF health = NoHealth THEN cfg
  ELSE [cfg EXCEPT
          !.maxRequestsPerMinute = Scaled(AdjustBaseRequestsPerMinute, health.status),
          !.maxConcurrentRequests = Scaled(AdjustBaseConcurrentRequests, health.status)]

\* a key that keeps the query string
getRequestKey_WithQuery(endpoint) == endpoint

\* endpoint.split('?')[0]
RECURSIVE getRequestKey(_)
getRequestKey(endpoint) ==
  IF endpoint = <<>> \/ Head(endpoint) = "?" THEN <<>>
  ELSE <<Head(endpoint)>> \o getRequestKey(Tail(endpoint))

\* a clean-up that looks back two minutes
Expired_TwoWindows(time, t) == time < t - 2 * WindowMs

\* the "Clean old entries" loop of isRateLimited
Expired(time, t) == time < t - WindowMs

CleanKeys(times, t) == { k \in DOMAIN times : ~Expired(times[k], t) }

CleanTimes(times, t) == [k \in CleanKeys(times, t) |-> times[k]]

CleanCounts(counts, times, t) ==
  [k \in (DOMAIN counts) \cap CleanKeys(times, t) |-> counts[k]]

\* this.requestCounts.get(key) || 0
CountOf(counts, key) == IF key \in DOMAIN counts THEN counts[key] ELSE 0

\* isRateLimited's answer, read after the clean-up
OverBudget(count, cap) == count >= cap

\* a recordRequest that sets the count to one
RecordCounts_NoIncrement(counts, key) ==
  [k \in (DOMAIN counts) \cup {key} |-> IF k = key THEN 1 ELSE counts[k]]

\* recordRequest
RecordTimes(times, key, t) ==
  [k \in (DOMAIN times) \cup {key} |-> IF k = key THEN t ELSE times[k]]

RecordCounts(counts, key) ==
  [k \in (DOMAIN counts) \cup {key} |->
     IF k = key THEN CountOf(counts, key) + 1 ELSE counts[k]]

\* a waitForBackoff that is not awaited holds nothing back
BackoffActive_NotAwaited(t, until) == FALSE

\* waitForBackoff: a timer is needed
BackoffActive(t, until) == JsLt(t, until)

\* a 429 branch that forgets backoffMultiplier
BackoffTime_NoMultiplier(header, cfg) ==
  JsMin(IF Truthy(header) THEN JsMul(ParseInt(header), 1000)
                          ELSE DefaultRetryAfterMs,
        cfg.maxBackoffTime)

\* the 429 branch of request()
BackoffTime(header, cfg) ==
  JsMin(JsMul(IF Truthy(header) THEN JsMul(ParseInt(header), 1000)
                                ELSE DefaultRetryAfterMs,
              cfg.backoffMultiplier),
        cfg.maxBackoffTime)

\* a drain that takes the array head without sorting
SortByPriority_Unsorted(q, r) == q

\* requestQueue.sort((a, b) => b.priority - a.priority): stable, descending
RECURSIVE SortByPriority(_, _)
SortByPriority(q, r) ==
  IF q = <<>> THEN <<>>
  ELSE LET top == CHOOSE p \in { r[q[i]].priority : i \in 1..Len(q) } :
                    \A i \in 1..Len(q) : r[q[i]].priority <= p
       IN  SelectSeq(q, LAMBDA x : r[x].priority = top)
             \o SortByPriority(SelectSeq(q, LAMBDA x : r[x].priority /= top), r)

\* a drain that still pops when the counter equals the cap
QueueIdle_OffByOne(q, active, cap) == Len(q) = 0 \/ active > cap

\* the early return of processQueue
QueueIdle(q, active, cap) == Len(q) = 0 \/ active >= cap

\* a capacity test that keeps one slot back
AtCapacity_OneShort(active, cap) == active >= cap - 1

\* the capacity test of makeRequest's executor
AtCapacity(active, cap) == active >= cap

\* request(): recordRequest, then fetch.  S is the scheduler's state.
IssueRequest(S, id, path, t) ==
  LET key == getRequestKey(S.req[id].endpoint)
  IN  [S EXCEPT
         !.req[id].st = "inflight",
         !.req[id].via = path,
         !.req[id].dispAt = t,
         !.lastRequestTimes = RecordTimes(S.lastRequestTimes, key, t),
         !.requestCounts = RecordCounts(S.requestCounts, key),
         !.issued = Append(S.issued, id)]

\* processQueue up to its await: sort, shift, count, start the entry
processQueue(S, t) ==
  IF QueueIdle(S.requestQueue, S.activeRequests, S.config.maxConcurrentRequests)
  THEN S
  ELSE LET sorted == SortByPriority(S.requestQueue, S.req)
           S1 == [S EXCEPT !.requestQueue = Tail(sorted),
                           !.activeRequests = S.activeRequests + 1]
       IN  IssueRequest(S1, Head(sorted), "queue", t)

\* an executor that recorded the request when it put it in the queue
Admit_RecordsAtEnqueue(S, id, t) ==
  IF AtCapacity(S.activeRequests, S.config.maxConcurrentRequests)
  THEN LET key == getRequestKey(S.req[id].endpoint)
       IN  [S EXCEPT !.requestQueue = Append(S.requestQueue, id),
                     !.req[id].st = "queued",
                     !.enqLog = Append(S.enqLog, id),
                     !.lastRequestTimes = RecordTimes(S.lastRequestTimes, key, t),
                     !.requestCounts = RecordCounts(S.requestCounts, key)]
  ELSE IssueRequest(processQueue(S, t), id, "fast", t)

\* an executor whose immediate path counted the request as active
Admit_CountsImmediate(S, id, t) ==
  IF AtCapacity(S.activeRequests, S.config.maxConcurrentRequests)
  THEN [S EXCEPT !.requestQueue = Append(S.requestQueue, id),
                 !.req[id].st = "queued",
                 !.enqLog = Append(S.enqLog, id)]
  ELSE [IssueRequest(processQueue(S, t), id, "fast", t)
          EXCEPT !.activeRequests = @ + 1]

\* the Promise executor of makeRequest, run once waitForBackoff has returned
Admit(S, id, t) ==
  IF AtCapacity(S.activeRequests, S.config.maxConcurrentRequests)
  THEN [S EXCEPT !.requestQueue = Append(S.requestQueue, id),
                 !.req[id].st = "queued",
                 !.enqLog = Append(S.enqLog, id)]
  ELSE IssueRequest(processQueue(S, t), id, "fast", t)

Sched ==
  [req |-> req, requestQueue |-> requestQueue, activeRequests |-> activeRequests,
   requestCounts |-> requestCounts, lastRequestTimes |-> lastRequestTimes,
   issued |-> issued, enqLog |-> enqLog, config |-> config]

SetSched(S) ==
  /\ req' = S.req
  /\ requestQueue' = S.requestQueue
  /\ activeRequests' = S.activeRequests
  /\ requestCounts' = S.requestCounts
  /\ lastRequestTimes' = S.lastRequestTimes
  /\ issued' = S.issued
  /\ enqLog' = S.enqLog

\* ------------------------------------------------------------------- Init
Init ==
  /\ now = 0
  /\ ticks = 0
  /\ config \in { Construct(o) : o \in ConfigOverrides }
  /\ requestQueue = <<>>
  /\ activeRequests = 0
  /\ requestCounts = [k \in {} |-> 0]
  /\ lastRequestTimes = [k \in {} |-> 0]
  /\ backoffUntil = 0
  /\ systemHealth = NoHealth
  /\ healthCheckTimer = TRUE
  /\ healthPending = 0
  /\ req = [i \in Ids |-> NoRequest]
  /\ nextId = 1
  /\ microQ = <<>>
  /\ drainTimers = 0
  /\ issued = <<>>
  /\ enqLog = <<>>
  /\ constructed = [maxRequestsPerMinute |-> config.maxRequestsPerMinute,
                    maxConcurrentRequests |-> config.maxConcurrentRequests]
  /\ last429 = No429
  /\ lastPoll = "none"
  /\ destroyCalls = 0
  /\ pendingAtDestroy = {}
  /\ mounted = "no"
  /\ hookOpts = NoOptions
  /\ retryCountRef = 0
  /\ retryTimeoutRef = 0
  /\ hookView = InitialView
  /\ calls = [c \in CallIds |-> NoCall]
  /\ retryTimers = {}
  /\ notifications = <<>>
  /\ notifTimers = <<>>
  /\ noteLog = <<>>

\* ---------------------------------------------------------------- actions
\* makeRequest, had it counted the call before the rate check let it pass
Submit_RecordsAtSubmission(endpoint, priority) ==
  /\ nextId <= MaxReq
  /\ LET id == nextId
         key == getRequestKey(endpoint)
         counts == CleanCounts(requestCounts, lastRequestTimes, now)
         limited == OverBudget(CountOf(counts, key), config.maxRequestsPerMinute)
         waits == BackoffActive(now, backoffUntil)
     IN  /\ requestCounts' = RecordCounts(counts, key)
         /\ lastRequestTimes' = CleanTimes(lastRequestTimes, now)
         /\ req' = [req EXCEPT ![id] =
                      [NoRequest EXCEPT
                         !.endpoint = endpoint,
                         !.priority = priority,
                         !.subAt = now,
                         !.after429 = last429,
                         !.wakeAt = IF ~limited /\ waits THEN backoffUntil ELSE 0,
                         !.st = IF limited THEN "RateLimitError"
                                ELSE IF waits THEN "backoff" ELSE "micro"]]
         /\ microQ' = IF ~limited /\ ~waits THEN Append(microQ, id) ELSE microQ
  /\ nextId' = nextId + 1
  /\ UNCHANGED << now, ticks, config, requestQueue, activeRequests, backoffUntil,
                  systemHealth, healthCheckTimer, healthPending, drainTimers,
                  issued, enqLog >>
  /\ UNCHANGED history
  /\ UNCHANGED << teardown, hookVars, noteVars >>

\* a makeRequest that waited for the backoff before it checked the rate limit
makeRequest_BackoffFirst(endpoint, priority) ==
  /\ nextId <= MaxReq
  /\ LET id == nextId
         key == getRequestKey(endpoint)
         counts == CleanCounts(requestCounts, lastRequestTimes, now)
         limited == OverBudget(CountOf(counts, key), config.maxRequestsPerMinute)
         waits == BackoffActive(now, backoffUntil)
     IN  /\ requestCounts' = IF waits THEN requestCounts ELSE counts
         /\ lastRequestTimes' = IF waits THEN lastRequestTimes
                                ELSE CleanTimes(lastRequestTimes, now)
         /\ req' = [req EXCEPT ![id] =
                      [NoRequest EXCEPT
                         !.endpoint = endpoint,
                         !.priority = priority,
                         !.subAt = now,
                         !.after429 = last429,
                         !.wakeAt = IF waits THEN backoffUntil ELSE 0,
                         !.st = IF waits THEN "backoff"
                                ELSE IF limited THEN "RateLimitError" ELSE "micro"]]
         /\ microQ' = IF ~limited /\ ~waits THEN Append(microQ, id) ELSE microQ
  /\ nextId' = nextId + 1
  /\ UNCHANGED << now, ticks, config, requestQueue, activeRequests, backoffUntil,
                  systemHealth, healthCheckTimer, healthPending, drainTimers,
                  issued, enqLog >>
  /\ UNCHANGED history
  /\ UNCHANGED << teardown, noteVars >>

\* makeRequest up to `await this.waitForBackoff()`
makeRequest(endpoint, priority) ==
  /\ nextId <= MaxReq
  /\ LET id == nextId
         key == getRequestKey(endpoint)
         counts == CleanCounts(requestCounts, lastRequestTimes, now)
         limited == OverBudget(CountOf(counts, key), config.maxRequestsPerMinute)
         waits == BackoffActive(now, backoffUntil)
     IN  /\ requestCounts' = counts
         /\ lastRequestTimes' = CleanTimes(lastRequestTimes, now)
         /\ req' = [req EXCEPT ![id] =
                      [NoRequest EXCEPT
                         !.endpoint = endpoint,
                         !.priority = priority,
                         !.subAt = now,
                         !.after429 = last429,
                         !.wakeAt = IF ~limited /\ waits THEN backoffUntil ELSE 0,
                         !.st = IF limited THEN "RateLimitError"
                                ELSE IF waits THEN "backoff" ELSE "micro"]]
         /\ microQ' = IF ~limited /\ ~waits THEN Append(microQ, id) ELSE microQ
  /\ nextId' = nextId + 1
  /\ UNCHANGED << now, ticks, config, requestQueue, activeRequests, backoffUntil,
                  systemHealth, healthCheckTimer, healthPending, drainTimers,
                  issued, enqLog >>
  /\ UNCHANGED history
  /\ UNCHANGED << teardown, noteVars >>

\* a call made on the client directly, not through the hook
Submit(endpoint, priority) ==
  /\ makeRequest(endpoint, priority)
  /\ UNCHANGED hookVars

\* the continuation of a call whose waitForBackoff set no timer
Continue ==
  /\ microQ /= <<>>
  /\ SetSched(Admit(Sched, Head(microQ), now))
  /\ microQ' = Tail(microQ)
  /\ UNCHANGED << now, ticks, config, backoffUntil, systemHealth, healthCheckTimer,
                  healthPending, nextId, drainTimers >>
  /\ UNCHANGED history
  /\ UNCHANGED << teardown, hookVars, noteVars >>

\* the backoff timer of a waiting call fires; timers fire in deadline order
BackoffExpire(id) ==
  /\ microQ = <<>>
  /\ req[id].st = "backoff"
  /\ req[id].wakeAt <= now
  /\ \A o \in Ids : req[o].st = "backoff" =>
        \/ req[o].wakeAt > req[id].wakeAt
        \/ req[o].wakeAt = req[id].wakeAt /\ o >= id
  /\ SetSched(Admit(Sched, id, now))
  /\ UNCHANGED << now, ticks, config, backoffUntil, systemHealth, healthCheckTimer,
                  healthPending, nextId, microQ, drainTimers >>
  /\ UNCHANGED history
  /\ UNCHANGED << teardown, hookVars, noteVars >>

\* the setTimeout(() => this.processQueue(), 0) of a finished queue entry
DrainTimer ==
  /\ microQ = <<>>
  /\ drainTimers > 0
  /\ drainTimers' = drainTimers - 1
  /\ SetSched(processQueue(Sched, now))
  /\ UNCHANGED << now, ticks, config, backoffUntil, systemHealth, healthCheckTimer,
                  healthPending, nextId, microQ >>
  /\ UNCHANGED history
  /\ UNCHANGED << teardown, hookVars, noteVars >>

\* what a finished fetch turns into
Outcome(kind) ==
  CASE kind = "2xx" -> "resolved"
    [] kind = "2xx-nojson" -> "SyntaxError"
    [] kind = "429" -> "ServerRateLimit"
    [] kind = "http" -> "HttpError"
    [] OTHER -> "NetworkError"

\* the class response.ok and response.status put a finished fetch in
ResponseClass(kind) ==
  CASE kind \in {"2xx", "2xx-nojson"} -> "2xx"
    [] kind = "429" -> "429"
    [] kind = "http" -> "http"
    [] OTHER -> "none"

\* the fetch of an issued request ends; a queue entry then frees its slot
Complete(id, kind, header) ==
  /\ microQ = <<>>
  /\ req[id].st = "inflight"
  /\ req' = [req EXCEPT ![id].st = Outcome(kind),
                        ![id].resp = ResponseClass(kind)]
  /\ backoffUntil' = IF kind = "429" THEN JsAdd(now, BackoffTime(header, config))
                     ELSE backoffUntil
  /\ activeRequests' = IF req[id].via = "queue" THEN activeRequests - 1
                       ELSE activeRequests
  /\ drainTimers' = IF req[id].via = "queue" THEN drainTimers + 1 ELSE drainTimers
  /\ UNCHANGED << now, ticks, config, requestQueue, requestCounts, lastRequestTimes,
                  systemHealth, healthCheckTimer, healthPending, nextId, microQ,
                  issued, enqLog >>
  /\ last429' = IF kind = "429" THEN [id |-> id, at |-> now, header |-> header]
                ELSE last429
  /\ UNCHANGED << constructed, lastPoll >>
  /\ UNCHANGED << teardown, hookVars, noteVars >>

\* the setInterval callback: updateSystemHealth issues its fetch
HealthTimerFire ==
  /\ microQ = <<>>
  /\ healthCheckTimer
  /\ healthPending < MaxHealthPending
  /\ healthPending' = healthPending + 1
  /\ UNCHANGED << now, ticks, config, requestQueue, activeRequests, requestCounts,
                  lastRequestTimes, backoffUntil, systemHealth, healthCheckTimer,
                  req, nextId, microQ, drainTimers, issued, enqLog >>
  /\ UNCHANGED history
  /\ UNCHANGED << teardown, hookVars, noteVars >>

\* updateSystemHealth, response.ok with a body
HealthOk(body) ==
  /\ microQ = <<>>
  /\ healthPending > 0
  /\ healthPending' = healthPending - 1
  /\ systemHealth' = Snapshot(body)
  /\ config' = adjustRateLimits(config, Snapshot(body))
  /\ UNCHANGED << now, ticks, requestQueue, activeRequests, requestCounts,
                  lastRequestTimes, backoffUntil, healthCheckTimer, req, nextId,
                  microQ, drainTimers, issued, enqLog >>
  /\ lastPoll' = "ok"
  /\ UNCHANGED << constructed, last429 >>
  /\ UNCHANGED << teardown, hookVars, noteVars >>

\* updateSystemHealth, a response that is not ok: nothing is stored
HealthNotOk ==
  /\ microQ = <<>>
  /\ healthPending > 0
  /\ healthPending' = healthPending - 1
  /\ UNCHANGED << now, ticks, config, requestQueue, activeRequests, requestCounts,
                  lastRequestTimes, backoffUntil, systemHealth, healthCheckTimer,
                  req, nextId, microQ, drainTimers, issued, enqLog >>
  /\ lastPoll' = "notok"
  /\ UNCHANGED << constructed, last429 >>
  /\ UNCHANGED << teardown, hookVars, noteVars >>

\* updateSystemHealth, fetch or json() throws: the catch block
HealthThrows ==
  /\ microQ = <<>>
  /\ healthPending > 0
  /\ healthPending' = healthPending - 1
  /\ systemHealth' = DegradedPlaceholder
  /\ UNCHANGED << now, ticks, config, requestQueue, activeRequests, requestCounts,
                  lastRequestTimes, backoffUntil, healthCheckTimer, req, nextId,
                  microQ, drainTimers, issued, enqLog >>
  /\ lastPoll' = "throws"
  /\ UNCHANGED << constructed, last429 >>
  /\ UNCHANGED << teardown, hookVars, noteVars >>

\* a destroy() that leaves the interval running
destroy_KeepsTimer ==
  /\ microQ = <<>>
  /\ destroyCalls < MaxDestroy
  /\ destroyCalls' = destroyCalls + 1
  /\ pendingAtDestroy' = IF destroyCalls = 0
                         THEN { i \in Ids : req[i].st \in {"micro", "backoff", "queued",
                                                           "inflight"} }
                         ELSE pendingAtDestroy
  /\ UNCHANGED << now, ticks, config, requestQueue, activeRequests, requestCounts,
                  lastRequestTimes, backoffUntil, systemHealth, healthCheckTimer,
                  healthPending, req, nextId, microQ, drainTimers, issued, enqLog >>
  /\ UNCHANGED history
  /\ UNCHANGED << hookVars, noteVars >>

\* a destroy() that starts the interval again when it finds none
destroy_Toggles ==
  /\ microQ = <<>>
  /\ destroyCalls < MaxDestroy
  /\ destroyCalls' = destroyCalls + 1
  /\ pendingAtDestroy' = IF destroyCalls = 0
                         THEN { i \in Ids : req[i].st \in {"micro", "backoff", "queued",
                                                           "inflight"} }
                         ELSE pendingAtDestroy
  /\ healthCheckTimer' = ~healthCheckTimer
  /\ UNCHANGED << now, ticks, config, requestQueue, activeRequests, requestCounts,
                  lastRequestTimes, backoffUntil, systemHealth, healthPending,
                  req, nextId, microQ, drainTimers, issued, enqLog >>
  /\ UNCHANGED history
  /\ UNCHANGED << hookVars, noteVars >>

\* destroy(): clearInterval when the timer is set, nothing otherwise
destroy ==
  /\ microQ = <<>>
  /\ destroyCalls < MaxDestroy
  /\ destroyCalls' = destroyCalls + 1
  /\ pendingAtDestroy' = IF destroyCalls = 0
                         THEN { i \in Ids : req[i].st \in {"micro", "backoff", "queued",
                                                           "inflight"} }
                         ELSE pendingAtDestroy
  /\ healthCheckTimer' = FALSE
  /\ UNCHANGED << now, ticks, config, requestQueue, activeRequests, requestCounts,
                  lastRequestTimes, backoffUntil, systemHealth, healthPending,
                  req, nextId, microQ, drainTimers, issued, enqLog >>
  /\ UNCHANGED history
  /\ UNCHANGED << hookVars, noteVars >>

\* instants the clock may jump to: the deadlines of the pending timers
Deadlines ==
  { req[i].wakeAt : i \in { j \in Ids : req[j].st = "backoff" } }
    \cup { t.fireAt : t \in retryTimers }
    \cup { notifTimers[n].fireAt : n \in 1..Len(notifTimers) }

\* a call through the hook whose awaited promise has settled
SettleDue(c) ==
  /\ calls[c].st = "awaiting"
  /\ req[calls[c].cur].st \in {"resolved", "RateLimitError", "ServerRateLimit",
                                "HttpError", "NetworkError", "SyntaxError"}

\* the clock advances, at most max times; a due timer fires before the clock
\* passes it, and so does every continuation that is ready
TickWithin(to, max) ==
  /\ microQ = <<>>
  /\ drainTimers = 0
  /\ \A c \in CallIds : ~SettleDue(c)
  /\ ticks < max
  /\ to > now
  /\ \A d \in Deadlines : d >= to
  /\ now' = to
  /\ ticks' = ticks + 1
  /\ UNCHANGED << config, requestQueue, activeRequests, requestCounts,
                  lastRequestTimes, backoffUntil, systemHealth, healthCheckTimer,
                  healthPending, req, nextId, microQ, drainTimers, issued, enqLog >>
  /\ UNCHANGED history
  /\ UNCHANGED << teardown, hookVars, noteVars >>

Tick(to) == TickWithin(to, MaxTicks)

\* ------------------------------------------------------ the retry hook
\* Error messages are kept as their words and marks, in order, so that
\* String.prototype.includes is the search for a run of words, case and all.
RateLimitMessage ==
  <<"Rate", "limit", "exceeded", ".", "Please", "try", "again", "later", ".">>

ServerRateLimitMessage ==
  <<"Server", "rate", "limit", "exceeded", ".", "Backing", "off", "...">>

FetchFailedMessage == <<"Failed", "to", "fetch">>

JsonMessage == <<"Unexpected", "end", "of", "JSON", "input">>

\* response.statusText of a response that is not ok: the server's choice
StatusTexts == { <<"Service", "Unavailable">>, <<"Rate", "limit", "exceeded">> }

\* `HTTP ${response.status}: ${response.statusText}`
HttpMessage(statusText) == <<"HTTP", "503", ":">> \o statusText

\* message.includes(part)
includes(message, part) ==
  \E k \in 0..(Len(message) - Len(part)) :
    SubSeq(message, k + 1, k + Len(part)) = part

\* the error a rejected makeRequest call carries
ErrorOf(st, statusText) ==
  CASE st = "RateLimitError" -> [name |-> "RateLimitError", message |-> RateLimitMessage]
    [] st = "ServerRateLimit" -> [name |-> "Error", message |-> ServerRateLimitMessage]
    [] st = "HttpError" -> [name |-> "Error", message |-> HttpMessage(statusText)]
    [] st = "SyntaxError" -> [name |-> "SyntaxError", message |-> JsonMessage]
    [] OTHER -> [name |-> "TypeError", message |-> FetchFailedMessage]

LocalRetryAfter == 60

ServerRetryAfter == 30

DefaultMaxRetries == 3

\* the if / else if chain of executeRequest's catch
Classified(error) ==
  IF error.name = "RateLimitError"
  THEN [errorMessage |-> "Too many requests. Please wait before trying again.",
        isRateLimited |-> TRUE, retryAfter |-> LocalRetryAfter]
  ELSE IF includes(error.message, <<"Rate", "limit", "exceeded">>)
  THEN [errorMessage |-> "Server is busy. Please try again in a moment.",
        isRateLimited |-> TRUE, retryAfter |-> ServerRetryAfter]
  ELSE IF includes(error.message, <<"HTTP">>)
  THEN [errorMessage |-> error.message, isRateLimited |-> FALSE, retryAfter |-> 0]
  ELSE [errorMessage |-> "An unexpected error occurred",
        isRateLimited |-> FALSE, retryAfter |-> 0]

RECURSIVE Pow2(_)
Pow2(n) == IF n <= 0 THEN 1 ELSE 2 * Pow2(n - 1)

\* retryAfter * 1000 * Math.pow(2, retryCountRef.current - 1)
RetryDelay(retryAfter, count) == retryAfter * 1000 * Pow2(count - 1)

HookOptions ==
  { [retryOnRateLimit |-> r, maxRetries |-> n] :
      r \in BOOLEAN, n \in {1, DefaultMaxRetries} }

\* a component renders with the hook
useIntelligentApi(options) ==
  /\ microQ = <<>>
  /\ mounted = "no"
  /\ mounted' = "yes"
  /\ hookOpts' = options
  /\ UNCHANGED << ticks, clientVars, retryCountRef, retryTimeoutRef, hookView, calls,
                  retryTimers >>
  /\ UNCHANGED << history, teardown, noteVars >>

\* a retry test that lets the counter reach maxRetries + 1
ShouldRetry_Inclusive(isRateLimited, retryOnRateLimit, count, maxRetries) ==
  isRateLimited /\ retryOnRateLimit /\ count <= maxRetries

\* the test of the automatic retry
ShouldRetry(isRateLimited, retryOnRateLimit, count, maxRetries) ==
  isRateLimited /\ retryOnRateLimit /\ count < maxRetries

\* executeRequest up to `await requestFn()`: requestFn runs makeRequest
StartRequest(c, endpoint) ==
  /\ hookView' = [hookView EXCEPT !.loading = TRUE, !.error = "null",
                                  !.rateLimited = FALSE]
  /\ makeRequest(endpoint, DefaultPriority)
  /\ calls' = [calls EXCEPT ![c].endpoint = endpoint, ![c].st = "awaiting",
                            ![c].cur = nextId]

\* get / post / put / delete of the hook
HookCall(c, endpoint) ==
  /\ microQ = <<>>
  /\ mounted = "yes"
  /\ calls[c].st = "none"
  /\ \A b \in CallIds : b < c => calls[b].st /= "none"
  /\ StartRequest(c, endpoint)
  /\ UNCHANGED << mounted, hookOpts, retryCountRef, retryTimeoutRef, retryTimers >>

\* executeRequest after the await: the rest of the try, or the catch
Settle(c, statusText) ==
  /\ SettleDue(c)
  /\ LET outcome == req[calls[c].cur].st
         k == Classified(ErrorOf(outcome, statusText))
         retry == ShouldRetry(k.isRateLimited, hookOpts.retryOnRateLimit,
                              retryCountRef, hookOpts.maxRetries)
         delay == RetryDelay(k.retryAfter, retryCountRef + 1)
     IN  IF outcome = "resolved"
         THEN /\ hookView' = [hookView EXCEPT !.loading = FALSE, !.error = "null",
                                              !.rateLimited = FALSE]
              /\ retryCountRef' = 0
              /\ calls' = [calls EXCEPT ![c].st = "returned"]
              /\ UNCHANGED << retryTimeoutRef, retryTimers >>
         ELSE /\ hookView' = [loading |-> FALSE, error |-> k.errorMessage,
                              rateLimited |-> k.isRateLimited,
                              retryAfter |-> k.retryAfter]
              /\ retryCountRef' = IF retry THEN retryCountRef + 1 ELSE retryCountRef
              /\ retryTimers' = IF retry
                                THEN retryTimers \cup {[call |-> c, fireAt |-> now + delay]}
                                ELSE retryTimers
              /\ retryTimeoutRef' = IF retry THEN c ELSE retryTimeoutRef
              /\ calls' = [calls EXCEPT
                             ![c].st = IF retry THEN "retryWait" ELSE "failed",
                             ![c].retries = IF retry THEN @ + 1 ELSE @,
                             ![c].delays = IF retry THEN Append(@, delay) ELSE @]
  /\ UNCHANGED << ticks, clientVars, mounted, hookOpts >>
  /\ UNCHANGED << history, teardown, noteVars >>

\* the retry timer of a call fires: executeRequest(requestFn) once more
RetryFire(c) ==
  /\ microQ = <<>>
  /\ \E t \in retryTimers :
       /\ t.call = c
       /\ t.fireAt <= now
       /\ retryTimers' = retryTimers \ {t}
  /\ StartRequest(c, calls[c].endpoint)
  /\ UNCHANGED << mounted, hookOpts, retryCountRef, retryTimeoutRef >>

\* the owner unmounts, once every continuation that is ready has run: the
\* cleanup effect clears the timer retryTimeoutRef holds, the one set last
Unmount ==
  /\ microQ = <<>>
  /\ \A c \in CallIds : ~SettleDue(c)
  /\ mounted = "yes"
  /\ mounted' = "unmounted"
  /\ retryTimers' = { t \in retryTimers : t.call /= retryTimeoutRef }
  /\ calls' = [c \in CallIds |->
                IF c = retryTimeoutRef /\ calls[c].st = "retryWait"
                THEN [calls[c] EXCEPT !.st = "cancelled"]
                ELSE calls[c]]
  /\ UNCHANGED << ticks, clientVars, hookOpts, retryCountRef, retryTimeoutRef,
                  hookView >>
  /\ UNCHANGED << history, teardown, noteVars >>

\* ------------------------------------------- useRateLimitNotifications
\* Number.prototype.toString: the decimal digits of a non-negative integer
toString_LastDigit(n) == << n % 10 >>

RECURSIVE toString(_)
toString(n) == IF n < 10 THEN << n >> ELSE toString(n \div 10) \o << n % 10 >>

AutoRemoveMs == 5000

NotificationTypes == {"warning", "error"}

\* prev.filter(n => n.id !== id)
WithoutId(list, id) == SelectSeq(list, LAMBDA n : n.id /= id)

Listed == { notifications[k] : k \in 1..Len(notifications) }

\* addNotification(message, type): the id is the clock reading as a string; the
\* notification is appended and its auto-remove timer set
addNotification(type) ==
  /\ microQ = <<>>
  /\ LET id == toString(now)
     IN  /\ notifications' = Append(notifications,
                                    [id |-> id, type |-> type, timestamp |-> now])
         /\ notifTimers' = Append(notifTimers,
                                  [id |-> id, fireAt |-> now + AutoRemoveMs])
  /\ UNCHANGED noteLog
  /\ UNCHANGED << ticks, clientVars, history, teardown, hookVars >>

\* the callback of the auto-remove timer set first among those pending
AutoRemove ==
  /\ microQ = <<>>
  /\ notifTimers /= <<>>
  /\ Head(notifTimers).fireAt <= now
  /\ LET id == Head(notifTimers).id
     IN  /\ notifications' = WithoutId(notifications, id)
         /\ noteLog' = Append(noteLog,
                              [id |-> id, at |-> now,
                               gone |-> { n \in Listed : n.id = id }])
  /\ notifTimers' = Tail(notifTimers)
  /\ UNCHANGED << ticks, clientVars, history, teardown, hookVars >>

\* removeNotification(id), for the id of a notification on display
removeNotification(id) ==
  /\ microQ = <<>>
  /\ \E n \in Listed : n.id = id
  /\ notifications' = WithoutId(notifications, id)
  /\ UNCHANGED << notifTimers, noteLog >>
  /\ UNCHANGED << ticks, clientVars, history, teardown, hookVars >>

clearAll ==
  /\ microQ = <<>>
  /\ notifications' = <<>>
  /\ UNCHANGED << notifTimers, noteLog >>
  /\ UNCHANGED << ticks, clientVars, history, teardown, hookVars >>

\* ------------------------------------------------------- specifications
\* The admission queue and the concurrency cap: one endpoint, two priorities,
\* the limits as constructed or as a health poll sets them, no 429.
InitQueue ==
  /\ Init
  /\ config.maxRequestsPerMinute = DefaultMaxRequestsPerMinute

QueueBodies == { <<>>, [cpu_usage |-> 95] }

NextQueue ==
  \/ \E p \in Priorities : nextId <= QueueReqs /\ Submit(EpA, p)
  \/ Continue
  \/ DrainTimer
  \/ \E id \in Ids : Complete(id, "2xx", NoHeader)
  \/ HealthTimerFire
  \/ \E b \in QueueBodies : HealthOk(b)

SpecQueue == InitQueue /\ [][NextQueue]_vars

\* The concurrency cap and the counter: as SpecQueue, with the default
\* priority only and one request more.
NextCap ==
  \/ Submit(EpA, DefaultPriority)
  \/ Continue
  \/ DrainTimer
  \/ \E id \in Ids, k \in {"2xx", "net"} : Complete(id, k, NoHeader)
  \/ HealthTimerFire
  \/ \E b \in QueueBodies : HealthOk(b)

SpecCap == InitQueue /\ [][NextCap]_vars

\* The backoff clock: the default limits, 429 responses with and without a
\* Retry-After header, the backoff timers and the clock.
InitBackoff ==
  /\ Init
  /\ config.maxRequestsPerMinute = DefaultMaxRequestsPerMinute
  /\ config.maxConcurrentRequests = DefaultMaxConcurrentRequests

BackoffSteps == {2000}

NextBackoff ==
  \/ nextId <= BackoffReqs /\ Submit(EpA, DefaultPriority)
  \/ Continue
  \/ \E id \in Ids : BackoffExpire(id)
  \/ \E id \in Ids : Complete(id, "2xx", NoHeader)
  \/ \E id \in Ids, h \in RetryAfterHeaders : Complete(id, "429", h)
  \/ \E to \in Deadlines \cup { now + s : s \in BackoffSteps } : Tick(to)

SpecBackoff == InitBackoff /\ [][NextBackoff]_vars

\* The rate limiter: a small per-minute limit, endpoints that share a key
\* and one that does not, the clock passing the window.
InitRate ==
  /\ Init
  /\ config.maxRequestsPerMinute \in {1, 2}
  /\ config.maxConcurrentRequests = DefaultMaxConcurrentRequests

RateSteps == {1000, WindowMs + 1}

NextRate ==
  \/ \E e \in Endpoints : nextId <= RateReqs /\ Submit(e, DefaultPriority)
  \/ Continue
  \/ \E id \in Ids : Complete(id, "2xx", NoHeader)
  \/ HealthTimerFire
  \/ HealthOk([cpu_usage |-> 95])
  \/ \E to \in { now + s : s \in RateSteps } : Tick(to)

SpecRate == InitRate /\ [][NextRate]_vars

\* The backoff across endpoints: the default limits, two endpoints, 429
\* responses with a numeric Retry-After below and above maxBackoffTime.
GlobalReqs == 3

GlobalEndpoints == {EpA, EpB}

NumericHeaders == {"2", "20"}

NextGlobal ==
  \/ \E e \in GlobalEndpoints : nextId <= GlobalReqs /\ Submit(e, DefaultPriority)
  \/ Continue
  \/ \E id \in Ids : BackoffExpire(id)
  \/ \E id \in Ids : Complete(id, "2xx", NoHeader)
  \/ \E id \in Ids, h \in NumericHeaders : Complete(id, "429", h)
  \/ \E to \in Deadlines \cup { now + s : s \in BackoffSteps } : Tick(to)

SpecGlobal == InitBackoff /\ [][NextGlobal]_vars

\* The health poller and the capacity policy: every construction of the two
\* limits, polls that are answered ok, answered not ok, or throw.
NextHealth ==
  \/ HealthTimerFire
  \/ \E b \in ThresholdBodies : HealthOk(b)
  \/ HealthNotOk
  \/ HealthThrows
  \/ destroy

SpecHealth == Init /\ [][NextHealth]_vars

\* The limiter key: a limit of two per minute, two endpoints that differ in
\* their query string only and one with another path.
KeyReqs == 3

KeyEndpoints == {EpAq1, EpAq2, EpB}

InitKey ==
  /\ Init
  /\ config.maxRequestsPerMinute = 2
  /\ config.maxConcurrentRequests = DefaultMaxConcurrentRequests

NextKey ==
  \/ \E e \in KeyEndpoints : nextId <= KeyReqs /\ Submit(e, DefaultPriority)
  \/ Continue
  \/ \E id \in Ids : Complete(id, "2xx", NoHeader)
  \/ \E to \in { now + s : s \in RateSteps } : Tick(to)

SpecKey == InitKey /\ [][NextKey]_vars

\* Tearing down: queued, waiting and issued requests, health polls, destroy().
DestroyReqs == 2

NextDestroy ==
  \/ nextId <= DestroyReqs /\ Submit(EpA, DefaultPriority)
  \/ Continue
  \/ DrainTimer
  \/ \E id \in Ids : BackoffExpire(id)
  \/ \E id \in Ids, k \in {"2xx", "429"} : Complete(id, k, NoHeader)
  \/ HealthTimerFire
  \/ \E b \in QueueBodies : HealthOk(b)
  \/ destroy
  \/ \E to \in Deadlines : Tick(to)

SpecDestroy == InitQueue /\ [][NextDestroy]_vars

\* Progress: the queue and the health poller with no 429 and no clock, every
\* continuation, drain timer, fetch and health poll eventually running. New
\* submissions are up to the caller and are not forced.
LiveReqs == 3

NextLive ==
  \/ nextId <= LiveReqs /\ Submit(EpA, DefaultPriority)
  \/ Continue
  \/ DrainTimer
  \/ \E id \in Ids, k \in {"2xx", "http"} : Complete(id, k, NoHeader)
  \/ HealthTimerFire
  \/ \E b \in QueueBodies : HealthOk(b)

SpecLive ==
  /\ InitQueue
  /\ [][NextLive]_vars
  /\ WF_vars(Continue)
  /\ WF_vars(DrainTimer)
  /\ \A id \in Ids : WF_vars(\E k \in {"2xx", "http"} : Complete(id, k, NoHeader))
  /\ WF_vars(HealthTimerFire)
  /\ WF_vars(\E b \in QueueBodies : HealthOk(b))

\* The notifications: notifications added in the same millisecond and apart,
\* removed by hand, cleared, and removed by their timers as the clock advances.
MaxNotes == 3

NotifyTicks == 3

NoteSteps == {2000}

NextNotify ==
  \/ \E t \in NotificationTypes :
       Len(notifTimers) + Len(noteLog) < MaxNotes /\ addNotification(t)
  \/ AutoRemove
  \/ \E n \in Listed : removeNotification(n.id)
  \/ clearAll
  \/ \E to \in Deadlines \cup { now + s : s \in NoteSteps } :
       TickWithin(to, NotifyTicks)

SpecNotify == Init /\ [][NextNotify]_vars

\* The window of the limiter: small per-minute limits, a cap of 0 (everything
\* is queued) or the default, two keys, a 429 for the first fetch, and the
\* clock moving by less than a window at a time and, in two steps, past it.
WindowReqs == 3

WindowTicks == 2

WindowEndpoints == {EpA, EpB}

WindowSteps == {35000}

InitWindow ==
  /\ Init
  /\ config.maxRequestsPerMinute \in {1, 2}
  /\ config.maxConcurrentRequests \in {0, DefaultMaxConcurrentRequests}

NextWindow ==
  \/ \E e \in WindowEndpoints : nextId <= WindowReqs /\ Submit(e, DefaultPriority)
  \/ Continue
  \/ \E id \in Ids : BackoffExpire(id)
  \/ \E id \in Ids : Complete(id, "2xx", NoHeader)
  \/ Complete(1, "429", NoHeader)
  \/ \E to \in Deadlines \cup { now + s : s \in WindowSteps } :
       TickWithin(to, WindowTicks)

SpecWindow == InitWindow /\ [][NextWindow]_vars

\* The retry hook: a limit of one per minute, a call made on the client
\* directly, calls through the hook with and without retryOnRateLimit, every
\* way a fetch can fail, the retry timers and the clock.
RetryTicks == 3

InitRetry ==
  /\ Init
  /\ config.maxRequestsPerMinute = 1
  /\ config.maxConcurrentRequests = DefaultMaxConcurrentRequests

NextRetry ==
  \/ \E o \in HookOptions : useIntelligentApi(o)
  \/ nextId = 1 /\ Submit(EpA, DefaultPriority)
  \/ \E c \in CallIds : HookCall(c, EpA)
  \/ Continue
  \/ \E id \in Ids : BackoffExpire(id)
  \/ \E id \in Ids, k \in {"2xx", "429", "http", "net"} : Complete(id, k, NoHeader)
  \/ \E c \in CallIds, t \in StatusTexts : Settle(c, t)
  \/ \E c \in CallIds : RetryFire(c)
  \/ Unmount
  \/ \E to \in Deadlines : TickWithin(to, RetryTicks)

SpecRetry == InitRetry /\ [][NextRetry]_vars

\* The response handling: the default limits, every way a fetch can end.
OutcomeReqs == 3

ResponseKinds == {"2xx", "2xx-nojson", "http", "net"}

NextOutcome ==
  \/ nextId <= OutcomeReqs /\ Submit(EpA, DefaultPriority)
  \/ Continue
  \/ \E id \in Ids : BackoffExpire(id)
  \/ \E id \in Ids, k \in ResponseKinds : Complete(id, k, NoHeader)
  \/ \E id \in Ids, h \in {NoHeader, "2"} : Complete(id, "429", h)
  \/ \E to \in Deadlines \cup { now + s : s \in BackoffSteps } : Tick(to)

SpecOutcome == InitBackoff /\ [][NextOutcome]_vars

\* ------------------------------------------------------------------ claims
InFlight == { i \in Ids : req[i].st = "inflight" }

Waiting == { i \in Ids : req[i].st \in {"micro", "backoff", "queued"} }

Terminal ==
  { i \in Ids : req[i].st \in {"resolved", "RateLimitError", "ServerRateLimit",
                               "HttpError", "NetworkError", "SyntaxError"} }

Submitted == { i \in Ids : req[i].st /= "none" }

Issued == { issued[n] : n \in 1..Len(issued) }

Queued == { requestQueue[n] : n \in 1..Len(requestQueue) }

\* position of an id in a log it occurs in
PosIn(log, id) == CHOOSE n \in 1..Len(log) : log[n] = id

KeyOf(id) == getRequestKey(req[id].endpoint)

\* C1: the requests whose fetch is issued and not finished never outnumber
\* the effective maxConcurrentRequests.
C1_InFlightWithinCap ==
  Cardinality(InFlight) <= config.maxConcurrentRequests

\* C2: for every key, the fetches issued to it in the trailing 60 seconds
\* never outnumber the effective maxRequestsPerMinute.
C2_WindowWithinBudget ==
  \A i \in Issued :
    Cardinality({ j \in Issued : KeyOf(j) = KeyOf(i)
                                 /\ req[j].dispAt >= now - WindowMs })
      <= config.maxRequestsPerMinute

\* C3: no fetch is issued at a time before backoffUntil.
C3_NoIssueDuringBackoff ==
  [][issued' /= issued => ~JsLt(now', backoffUntil')]_vars

\* C4: whenever the drain pops an entry, no entry left in the queue has a
\* higher priority, and none of equal priority was enqueued earlier.
C4_PriorityThenFifo ==
  [][\A h \in Ids :
       (req[h].st = "queued" /\ req'[h].st /= "queued") =>
         \A q \in Ids : req'[q].st = "queued" /\ req[q].st = "queued" =>
           /\ req[q].priority <= req[h].priority
           /\ req[q].priority = req[h].priority =>
                PosIn(enqLog, h) < PosIn(enqLog, q)]_vars

\* C4 witness: priorities 1, 5, 1 were enqueued in that order and left the
\* queue as 5, first 1, second 1.
C4_Witness ==
  /\ Len(enqLog) >= 3
  /\ req[enqLog[1]].priority = 1
  /\ req[enqLog[2]].priority = 5
  /\ req[enqLog[3]].priority = 1
  /\ SelectSeq(issued, LAMBDA x : req[x].via = "queue")
       = << enqLog[2], enqLog[1], enqLog[3] >>

\* C5: a request never has its fetch issued while an equal-priority request
\* submitted earlier is still waiting (suspended, queued, or on a backoff
\* timer that is not yet due).
C5_EqualPriorityInSubmissionOrder ==
  \A a, b \in Ids :
    (a < b /\ b \in Issued /\ req[a].priority = req[b].priority)
      => \/ a \notin Waiting
         \/ req[a].st = "backoff" /\ req[a].wakeAt <= now

C7_CounterCountsInFlight ==
  activeRequests = Cardinality(InFlight)

\* C8: with cap C untouched by a poll, once C + 1 requests have been submitted
\* and admitted and none has completed, one is queued and C are in flight.
C8_OneQueuedAtCapPlusOne ==
  ( /\ systemHealth = NoHealth
    /\ Terminal = {}
    /\ microQ = <<>>
    /\ Cardinality(Submitted) = config.maxConcurrentRequests + 1 )
  => ( /\ Len(requestQueue) = 1
       /\ Cardinality(InFlight) = config.maxConcurrentRequests )

\* C9: a request admitted while the queue is empty and fewer requests than
\* the cap are in flight is dispatched at once, and the queue stays empty.
C9_ImmediateBelowCap ==
  [][\A id \in Ids :
       ( /\ req[id].st = "micro"
         /\ req'[id].st /= "micro"
         /\ requestQueue = <<>>
         /\ Cardinality(InFlight) < config.maxConcurrentRequests )
       => ( req'[id].st = "inflight" /\ requestQueue' = <<>> )]_vars

\* C9 witness: four requests submitted together under a cap of five are all
\* in flight by the fast path, and nothing was ever queued.
C9_Witness ==
  /\ config.maxConcurrentRequests = DefaultMaxConcurrentRequests
  /\ systemHealth = NoHealth
  /\ Cardinality(InFlight) >= 4
  /\ \A i \in InFlight : req[i].via = "fast"
  /\ enqLog = <<>>

\* C10: with cap K untouched by a poll, a request submitted when K or more
\* requests to its key were submitted before it within 60 seconds has no
\* fetch issued for it, and ends rejected with RateLimitError.
C10_OverBudgetRejected ==
  \A i \in Submitted :
    ( /\ systemHealth = NoHealth
      /\ Cardinality({ j \in Submitted : j < i /\ KeyOf(j) = KeyOf(i)
                          /\ req[j].subAt >= req[i].subAt - WindowMs })
           >= config.maxRequestsPerMinute )
    => req[i].st \in {"RateLimitError", "micro", "backoff", "queued"}

\* C11: a call rejected with RateLimitError has no other effect: no fetch is
\* issued for it then or later, the count and the last-seen time of its key are
\* not raised, activeRequests and requestQueue are as they were.
C11_RejectionHasNoOtherEffect ==
  [][\A i \in Ids :
       /\ req[i].st = "RateLimitError" => req'[i] = req[i]
       /\ (req[i].st = "none" /\ req'[i].st = "RateLimitError") =>
            LET k == getRequestKey(req'[i].endpoint)
            IN  /\ issued' = issued
                /\ activeRequests' = activeRequests
                /\ requestQueue' = requestQueue
                /\ CountOf(requestCounts', k) <= CountOf(requestCounts, k)
                /\ k \in DOMAIN lastRequestTimes' =>
                      /\ k \in DOMAIN lastRequestTimes
                      /\ lastRequestTimes'[k] = lastRequestTimes[k]]_vars

\* a call was rejected while its key stood exactly at the limit
C11_Witness ==
  \E i \in Ids :
    /\ req[i].st = "RateLimitError"
    /\ i \notin Issued
    /\ CountOf(requestCounts, KeyOf(i)) = config.maxRequestsPerMinute
    /\ KeyOf(i) \in DOMAIN lastRequestTimes
    /\ lastRequestTimes[KeyOf(i)] < req[i].subAt

\* C12: every finished fetch falls in exactly one class: a 2xx response
\* resolves the caller, a 429 sets backoffUntil and rejects with the server
\* rate limit error, any other response that is not ok rejects with the status
\* error and leaves backoffUntil alone, a fetch that throws rejects with what
\* it threw and leaves backoffUntil alone.
C12_OutcomeByResponseClass ==
  [][\A i \in Ids :
       (req[i].st = "inflight" /\ req'[i].st /= "inflight") =>
         CASE req'[i].resp = "2xx" -> req'[i].st = "resolved"
           [] req'[i].resp = "429" ->
                /\ req'[i].st = "ServerRateLimit"
                /\ last429' = [id |-> i, at |-> now, header |-> last429'.header]
           [] req'[i].resp = "http" ->
                /\ req'[i].st = "HttpError"
                /\ backoffUntil' = backoffUntil
           [] OTHER ->
                /\ req'[i].st = "NetworkError"
                /\ backoffUntil' = backoffUntil]_vars

\* the backoff a 429 with a numeric Retry-After of r seconds asks for
RetryAfterWait(r) ==
  IF r * 1000 * config.backoffMultiplier < config.maxBackoffTime
  THEN r * 1000 * config.backoffMultiplier
  ELSE config.maxBackoffTime

\* the call was made at the instant of the latest 429, right after it
RightAfter429(i) ==
  /\ req[i].after429.id /= 0
  /\ req[i].subAt = req[i].after429.at

\* C13: a call made right after a 429 whose Retry-After is r seconds has its
\* fetch issued no earlier than min(r * 1000 * backoffMultiplier,
\* maxBackoffTime) ms after that 429.
C13_IssuedAfterRetryAfter ==
  \A i \in Issued :
    LET p == req[i].after429
    IN  (RightAfter429(i) /\ Truthy(p.header) /\ ParseInt(p.header) /= NaN) =>
          req[i].dispAt >= p.at + RetryAfterWait(ParseInt(p.header))

\* Retry-After: 2 with the default multiplier: issued 4000 ms later
C13_Witness ==
  \E i \in Issued :
    /\ RightAfter429(i)
    /\ req[i].after429.header = "2"
    /\ req[i].dispAt = req[i].subAt + 4000

\* Retry-After: 20 is cut to maxBackoffTime: issued 30000 ms later
C13_WitnessCapped ==
  \E i \in Issued :
    /\ RightAfter429(i)
    /\ req[i].after429.header = "20"
    /\ req[i].dispAt = req[i].subAt + DefaultMaxBackoffTime

\* the seconds the claim reads from a Retry-After header
RetryAfterSeconds(header) ==
  IF Truthy(header) /\ ParseInt(header) /= NaN THEN ParseInt(header) ELSE 1

\* C14: after every 429, backoffUntil is the time of the 429 plus
\* min(retryAfterSeconds * 1000 * backoffMultiplier, maxBackoffTime), where
\* retryAfterSeconds is the header's number, or 1 when the header is absent or
\* cannot be parsed.
C14_BackoffUntilFromRetryAfter ==
  last429.id /= 0 =>
    backoffUntil = last429.at + RetryAfterWait(RetryAfterSeconds(last429.header))

\* the backoffUntil a call found when it was made
BackoffSeen(i) ==
  IF req[i].after429.id = 0 THEN 0
  ELSE JsAdd(req[i].after429.at, BackoffTime(req[i].after429.header, config))

\* the call was made during the backoff of a 429 another endpoint got
DuringOthersBackoff(i) ==
  /\ req[i].after429.id /= 0
  /\ KeyOf(req[i].after429.id) /= KeyOf(i)
  /\ JsLt(req[i].subAt, BackoffSeen(i))

\* C15: the backoff is global: a call to endpoint B made while the backoff
\* of a 429 for endpoint A runs has no fetch issued before that backoffUntil.
C15_BackoffIsGlobal ==
  \A i \in Issued : DuringOthersBackoff(i) => req[i].dispAt >= BackoffSeen(i)

\* a call to /b waited out the backoff a 429 for /a had set
C15_Witness ==
  \E i \in Issued :
    /\ DuringOthersBackoff(i)
    /\ req[i].endpoint = EpB
    /\ req[req[i].after429.id].endpoint = EpA
    /\ req[i].dispAt > req[i].subAt

\* the two limits as they stand
Caps ==
  [maxRequestsPerMinute |-> config.maxRequestsPerMinute,
   maxConcurrentRequests |-> config.maxConcurrentRequests]

\* C16: once a snapshot with status s has landed, each cap is
\* floor(base * m(s)), base being the limit the client was constructed with;
\* a healthy snapshot brings the constructed limits back.
C16_CapsScaleConstructedLimits ==
  lastPoll = "ok" =>
    Caps = [maxRequestsPerMinute |->
              Scaled(constructed.maxRequestsPerMinute, systemHealth.status),
            maxConcurrentRequests |->
              Scaled(constructed.maxConcurrentRequests, systemHealth.status)]

\* C17: whenever a snapshot is stored, also the degraded one made up when the
\* fetch fails, the caps are the ones the policy gives that snapshot's status.
C17_CapsFollowStoredStatus ==
  systemHealth /= NoHealth => config = adjustRateLimits(config, systemHealth)

\* C18: after a health poll that failed, by throwing or by a response that is
\* not ok, the stored snapshot is the degraded placeholder.
C18_FailedPollStoresPlaceholder ==
  lastPoll \in {"notok", "throws"} => systemHealth = DegradedPlaceholder

\* the status the claim gives to three readings (anomaly in hundredths)
StatusOf(cpu, memory, anomaly) ==
  IF cpu > 90 \/ memory > 90 \/ anomaly > 80 THEN "critical"
  ELSE IF cpu > 70 \/ memory > 70 \/ anomaly > 50 THEN "degraded"
  ELSE "healthy"

\* C19: a polled body is critical if cpu > 90, memory > 90 or anomaly > 0.8,
\* else degraded if cpu > 70, memory > 70 or anomaly > 0.5, else healthy; a
\* missing field counts as 0 and a value on a threshold does not pass it.
C19_StatusByStrictThresholds ==
  lastPoll = "ok" =>
    systemHealth.status = StatusOf(systemHealth.cpuUsage, systemHealth.memoryUsage,
                                   systemHealth.anomalyScore)

\* readings on the thresholds: 90, 90 and 0.8 are degraded, 70, 70 and 0.5
\* with nothing higher would be healthy
C19_Witness ==
  /\ lastPoll = "ok"
  /\ systemHealth.cpuUsage = 90
  /\ systemHealth.memoryUsage = 0
  /\ systemHealth.anomalyScore = 80
  /\ systemHealth.status = "degraded"

DefaultLimits ==
  [maxRequestsPerMinute |-> DefaultMaxRequestsPerMinute,
   maxConcurrentRequests |-> DefaultMaxConcurrentRequests]

\* C20: for a client with the default limits, an answered poll that is
\* critical sets the caps to 1 and 12, a degraded one to 2 and 30, a healthy
\* one to 5 and 60.
C20_DefaultCapsByStatus ==
  (constructed = DefaultLimits /\ lastPoll = "ok") =>
    /\ systemHealth.status \in {"critical", "degraded", "healthy"}
    /\ systemHealth.status = "critical" =>
         config.maxConcurrentRequests = 1 /\ config.maxRequestsPerMinute = 12
    /\ systemHealth.status = "degraded" =>
         config.maxConcurrentRequests = 2 /\ config.maxRequestsPerMinute = 30
    /\ systemHealth.status = "healthy" =>
         config.maxConcurrentRequests = 5 /\ config.maxRequestsPerMinute = 60

\* the poll {cpu_usage: 95} on a default client
C20_Witness ==
  /\ constructed = DefaultLimits
  /\ lastPoll = "ok"
  /\ systemHealth.cpuUsage = 95
  /\ systemHealth.memoryUsage = 0
  /\ systemHealth.anomalyScore = 0
  /\ systemHealth.status = "critical"
  /\ config.maxConcurrentRequests = 1
  /\ config.maxRequestsPerMinute = 12

\* two endpoints are the same up to their query strings
SamePath(e1, e2) ==
  \E n \in 0..Len(e1) :
    /\ n <= Len(e2)
    /\ SubSeq(e1, 1, n) = SubSeq(e2, 1, n)
    /\ \A k \in 1..n : e1[k] /= "?"
    /\ n = Len(e1) \/ e1[n + 1] = "?"
    /\ n = Len(e2) \/ e2[n + 1] = "?"

\* C21: endpoints that differ in their query string only share one budget:
\* issuing a fetch for one raises by one the count the rate check of the other
\* reads, and leaves the count of every endpoint with another path as it was.
C21_QueryStringSharesBudget ==
  [][\A i \in Ids :
       (req[i].st /= "inflight" /\ req'[i].st = "inflight") =>
         \A e \in KeyEndpoints :
           CountOf(requestCounts', getRequestKey(e)) =
             CountOf(requestCounts, getRequestKey(e))
               + (IF SamePath(e, req'[i].endpoint) THEN 1 ELSE 0)]_vars

\* /a?1 and /a?2 were both issued and a third call to /a?1 was rejected,
\* while /b stands at zero
C21_Witness ==
  \E i, j, k \in Ids :
    /\ req[i].endpoint = EpAq1 /\ i \in Issued
    /\ req[j].endpoint = EpAq2 /\ j \in Issued
    /\ req[k].endpoint = EpAq1 /\ req[k].st = "RateLimitError"
    /\ CountOf(requestCounts, getRequestKey(EpAq2)) = 2
    /\ CountOf(requestCounts, getRequestKey(EpB)) = 0

\* C30: the queue is work-conserving: between two turns of the event loop a
\* non-empty requestQueue means activeRequests has reached the effective
\* maxConcurrentRequests, also after a health poll has raised it.
C30_WorkConserving ==
  requestQueue /= <<>> => activeRequests >= config.maxConcurrentRequests

C27_DestroyIdempotent ==
  [][(destroyCalls >= 1 /\ destroyCalls' /= destroyCalls) =>
       UNCHANGED clientVars]_vars

\* destroy() was called twice
C27_Witness ==
  /\ destroyCalls = 2
  /\ ~healthCheckTimer

\* C28: every submitted request eventually resolves or rejects, given that
\* every fetch ends and every timer fires; in particular every queued entry
\* is eventually issued.
C28_EveryRequestSettles ==
  \A i \in Ids : (req[i].st /= "none") ~> (i \in Terminal)

\* what the makeRequest call a hook call awaits has ended in
CauseOf(c) == req[calls[c].cur].st

\* the two failures the retry layer is to retry: the local RateLimitError and
\* the executor's error for a 429
RateLimitCauses == {"RateLimitError", "ServerRateLimit"}

\* C22: when a call through the hook fails with the local RateLimitError or
\* with the executor's 429 error, retryOnRateLimit is on and the attempt
\* counter is below maxRetries, then a re-invocation is scheduled, the counter
\* goes up by one and the state shows rateLimited.
C22_RateLimitFailureIsRetried ==
  [][\A c \in CallIds :
       (/\ SettleDue(c) /\ calls'[c].st /= "awaiting"
        /\ CauseOf(c) \in RateLimitCauses
        /\ hookOpts.retryOnRateLimit
        /\ retryCountRef < hookOpts.maxRetries) =>
         /\ \E t \in retryTimers' \ retryTimers : t.call = c
         /\ retryCountRef' = retryCountRef + 1
         /\ hookView'.rateLimited]_vars

\* C23: a re-invocation is scheduled only for the local RateLimitError or the
\* executor's 429 error, and only with retryOnRateLimit on: never for an
\* HTTP status error, whatever its status text, nor for a network error.
C23_OnlyRateLimitFailuresRetried ==
  [][\A t \in retryTimers' \ retryTimers :
       /\ hookOpts.retryOnRateLimit
       /\ CauseOf(t.call) \in RateLimitCauses]_vars

\* C24: the attempt counter belongs to one logical call: a call that fails
\* with a RateLimitError and has itself been re-invoked fewer than maxRetries
\* times gets a retry, whatever other calls through the hook have used up.
C24_RetriesCountedPerCall ==
  [][\A c \in CallIds :
       (/\ SettleDue(c) /\ calls'[c].st /= "awaiting"
        /\ CauseOf(c) = "RateLimitError"
        /\ hookOpts.retryOnRateLimit
        /\ calls[c].retries < hookOpts.maxRetries) =>
         calls'[c].st = "retryWait"]_vars

\* the base delay the claim gives a failure, in seconds
BaseDelay(cause) == IF cause = "RateLimitError" THEN 60 ELSE 30

C29_NotificationsLiveFiveSeconds ==
  /\ \A n \in Listed : now <= n.timestamp + AutoRemoveMs
  /\ \A k \in 1..Len(noteLog) :
       \A n \in noteLog[k].gone : noteLog[k].at >= n.timestamp + AutoRemoveMs

\* a timer has removed its notification exactly 5 seconds after its creation
\* while a younger notification stayed on the list
C29_Witness ==
  \E k \in 1..Len(noteLog) :
    /\ \E n \in noteLog[k].gone : noteLog[k].at = n.timestamp + AutoRemoveMs
    /\ \E n \in Listed : /\ n.timestamp < noteLog[k].at
                         /\ n.timestamp + AutoRemoveMs > noteLog[k].at

\* C39: backoffUntil never moves to an earlier instant, also when a 429
\* arrives while a backoff period is running.
C39_BackoffUntilNeverDecreases ==
  [][~JsLt(backoffUntil', backoffUntil)]_vars

\* C38: a client constructed with maxConcurrentRequests >= 1 never has an
\* entry in its queue and never counts an active request, whatever is
\* submitted and whatever the health polls set.
C38_NothingQueuedOrCounted ==
  constructed.maxConcurrentRequests >= 1 =>
    /\ Len(requestQueue) = 0
    /\ activeRequests = 0

\* a client constructed with a cap of 5, lowered to 1 by a critical poll, has
\* two fetches under way, an empty queue and a counter of 0
C38_Witness ==
  /\ constructed.maxConcurrentRequests = DefaultMaxConcurrentRequests
  /\ config.maxConcurrentRequests = 1
  /\ Cardinality(InFlight) >= 2
  /\ Len(requestQueue) = 0
  /\ activeRequests = 0

\* the keys the limiter can hold
LimiterKeys == { getRequestKey(e) : e \in Endpoints \cup KeyEndpoints }

\* the fetches issued to a key in the trailing 60 seconds
IssuedInWindow(key) ==
  { j \in Issued : KeyOf(j) = key /\ req[j].dispAt >= now - WindowMs }

\* the fetches a step issues to a key
NewlyIssued(key) ==
  { n \in (Len(issued) + 1)..Len(issued') :
      getRequestKey(req'[issued'[n]].endpoint) = key }

\* C31: the count and the last-seen time of a key are raised only by a step
\* that issues a fetch to that key, by one per fetch issued; a step that issues
\* none (a submission, a rejection, a wait for the backoff, an enqueueing)
\* leaves them as they are or drops an entry that is older than the window.
C31_CountedAtDispatchOnly ==
  [][\A k \in LimiterKeys :
       IF NewlyIssued(k) /= {}
       THEN /\ CountOf(requestCounts', k)
                 = CountOf(requestCounts, k) + Cardinality(NewlyIssued(k))
            /\ lastRequestTimes'[k] = now'
       ELSE \/ /\ CountOf(requestCounts', k) = CountOf(requestCounts, k)
               /\ (k \in DOMAIN lastRequestTimes') = (k \in DOMAIN lastRequestTimes)
               /\ k \in DOMAIN lastRequestTimes =>
                    lastRequestTimes'[k] = lastRequestTimes[k]
            \/ /\ k \in DOMAIN lastRequestTimes
               /\ lastRequestTimes[k] < now - WindowMs
               /\ k \notin DOMAIN lastRequestTimes'
               /\ k \notin DOMAIN requestCounts']_vars

\* a call waits for the backoff with nothing counted for its key, and a call
\* was rejected on a key whose count is the one fetch issued to it
C31_Witness ==
  \E i, j \in Ids :
    /\ req[i].st = "backoff"
    /\ CountOf(requestCounts, KeyOf(i)) = 0
    /\ req[j].st = "RateLimitError"
    /\ CountOf(requestCounts, KeyOf(j)) = 1
    /\ Cardinality({ x \in Issued : KeyOf(x) = KeyOf(j) }) = 1

\* two calls sit in the queue of a client with a limit of one per minute,
\* and nothing is counted for their key
C31_QueuedUncounted ==
  \E i, j \in Queued :
    /\ i /= j
    /\ KeyOf(i) = KeyOf(j)
    /\ config.maxRequestsPerMinute = 1
    /\ CountOf(requestCounts, KeyOf(i)) = 0

\* C32: a submission is rejected with RateLimitError only if at least
\* maxRequestsPerMinute fetches were issued to its key in the trailing 60
\* seconds.
C32_RejectedOnlyWhenWindowFull ==
  [][\A i \in Ids :
       (req[i].st = "none" /\ req'[i].st = "RateLimitError") =>
          Cardinality(IssuedInWindow(getRequestKey(req'[i].endpoint)))
            >= config.maxRequestsPerMinute]_vars

\* C33: at every submission, a key with no fetch issued for more than 60
\* seconds is dropped from the limiter, whichever endpoint is submitted to, and
\* a submission to such a key is admitted when maxRequestsPerMinute >= 1.
C33_StaleKeyEvictedAndAdmitted ==
  [][\A i \in Ids :
       (req[i].st = "none" /\ req'[i].st /= "none") =>
          \A k \in LimiterKeys :
            (\A j \in Issued : KeyOf(j) = k => req[j].dispAt < now - WindowMs) =>
               /\ k \notin DOMAIN lastRequestTimes'
               /\ CountOf(requestCounts', k) = 0
               /\ (k = getRequestKey(req'[i].endpoint)
                     /\ config.maxRequestsPerMinute >= 1) =>
                    req'[i].st /= "RateLimitError"]_vars

\* a key stood at its limit (a call was rejected), more than 60 seconds passed
\* without a fetch to it, and a later call to it had its fetch issued
C33_Witness ==
  \E j, r, i \in Ids :
    /\ j \in Issued /\ i \in Issued
    /\ KeyOf(j) = KeyOf(r) /\ KeyOf(j) = KeyOf(i)
    /\ req[r].st = "RateLimitError"
    /\ req[r].subAt >= req[j].dispAt
    /\ req[i].subAt > req[j].dispAt + WindowMs
    /\ req[i].subAt > req[r].subAt

\* C34: a call submitted while now < backoffUntil to a key that stands at its
\* limit is rejected with RateLimitError in the same step, with no timer set
\* and nothing left to run for it.
C34_RateCheckBeforeBackoff ==
  [][\A i \in Ids :
       (req[i].st = "none" /\ req'[i].st /= "none") =>
          LET k == getRequestKey(req'[i].endpoint)
          IN  ( /\ JsLt(now, backoffUntil)
                /\ k \in DOMAIN lastRequestTimes
                /\ lastRequestTimes[k] >= now - WindowMs
                /\ CountOf(requestCounts, k) >= config.maxRequestsPerMinute )
              => /\ req'[i].st = "RateLimitError"
                 /\ req'[i].wakeAt = 0
                 /\ microQ' = microQ]_vars

\* a call was rejected at an instant before backoffUntil, after a 429
C34_Witness ==
  \E i \in Ids :
    /\ req[i].st = "RateLimitError"
    /\ req[i].after429.id /= 0
    /\ req[i].subAt = now
    /\ JsLt(now, backoffUntil)

\* the count the limiter goes by: zero for a key it does not hold or would
\* drop at its next check
TrackedCount(key) ==
  IF key \in DOMAIN lastRequestTimes /\ lastRequestTimes[key] >= now - WindowMs
  THEN CountOf(requestCounts, key)
  ELSE 0

\* C37: for every key, the count the limiter goes by is at least the number
\* of fetches issued to that key in the trailing 60 seconds.
C37_CountCoversWindow ==
  \A k \in LimiterKeys : TrackedCount(k) >= Cardinality(IssuedInWindow(k))

\* the count exceeds the fetches of the trailing 60 seconds: two fetches
\* less than 60 seconds apart, the first of them out of the window by now
C37_Witness ==
  \E k \in LimiterKeys :
    /\ Cardinality(IssuedInWindow(k)) = 1
    /\ TrackedCount(k) = 2

\* C35: the attempt counter stays within 0..maxRetries; every retry that is
\* scheduled raises it by one, and it only goes down, to 0, when a call
\* succeeds: so no more than maxRetries retries are scheduled between two
\* successes.
C35_RetriesBounded ==
  [][/\ 0 <= retryCountRef'
     /\ retryCountRef' <= hookOpts'.maxRetries
     /\ Cardinality(retryTimers' \ retryTimers) <= 1
     /\ retryTimers' \ retryTimers /= {} => retryCountRef' = retryCountRef + 1
     /\ retryCountRef' /= retryCountRef =>
          \/ retryTimers' \ retryTimers /= {}
          \/ /\ retryCountRef' = 0
             /\ \E c \in CallIds : /\ calls[c].st = "awaiting"
                                   /\ calls'[c].st = "returned"]_vars

\* a call that was re-invoked is rate-limited again with the counter at
\* maxRetries: no retry is scheduled, the error is shown
C35_Witness ==
  \E c \in CallIds :
    /\ calls[c].st = "failed"
    /\ calls[c].retries >= 1
    /\ CauseOf(c) = "RateLimitError"
    /\ retryCountRef = hookOpts.maxRetries
    /\ hookView.rateLimited
    /\ \A t \in retryTimers : t.call /= c

\* C36: once the owner has unmounted, no request is invoked again by a retry
\* timer.
C36_NoRetryAfterUnmount ==
  [][mounted = "unmounted" =>
       \A c \in CallIds : calls'[c].cur = calls[c].cur]_vars

====
